---- MODULE Spec2Model ----
(***************************************************************************)
(* The training-job orchestration core of caption_tool__aio:               *)
(*   EventBus / Job / JobQueue   src/src/tagtragger/core/common/events.py  *)
(*     (services/job_queue.py is the same code, but for the FAILED event   *)
(*      of a run that raised: it carries rc = -1 where this one carries    *)
(*      error = str(e))                                                    *)
(*   MusubiQwenImageTrainer      .../trainers/musubi_qwen_image.py         *)
(*                                                                         *)
(* Threads: one submitting thread (JobQueue.submit), one cancelling thread *)
(* (JobQueue.cancel) and the max_workers threads of the ThreadPoolExecutor.*)
(* A step of the model is one stretch of a thread between two accesses to  *)
(* state the other threads see (the registry, the work queue, the bus).    *)
(*                                                                         *)
(* Specifications, all from the same initial state:                        *)
(*   Spec, FairSpec   JobQueue: submit, the worker pool, cancel            *)
(*   BusSpec          EventBus: on, emit and the handlers it calls         *)
(*   TrainerSpec      MusubiQwenImageTrainer: run (simulation and real     *)
(*                    process) and cancel                                  *)
(*   ManagerSpec      TrainingManager: total_steps and the ETA of progress *)
(*                    events (the manager of the bus and the queue, as the *)
(*                    specification describes it)                          *)
(*   CancelSpec       JobQueue running the job of MusubiQwenImageTrainer:  *)
(*                    cancel while run is executing, under fair scheduling *)
(*   TaskSpec         core/training/manager.py TrainingManager with its    *)
(*                    MusubiTrainer (trainers/musubi_trainer.py): tasks,   *)
(*                    training threads, cancel_task, delete_task, and the  *)
(*                    job of MusubiTrainer.build_job in the JobQueue       *)
(***************************************************************************)
EXTENDS Integers, Sequences, FiniteSets, TLC

\* ---------------------------------------------------------------- bounds
\* What the environment does in one behaviour: Jobs constructed, calls of
\* JobQueue.cancel and output lines printed by the external processes, together.
MaxInputs == 3

\* ---------------------------------------------------------------- inputs
\* Trainer instances; each draws its own uuid in __init__.
Trainers == {1}
\* JobQueue(bus, max_workers): the values of max_workers tried.
WorkerCounts == {1, 2}
\* Exit codes of the external process (0 = success).
ExitCodes == {0, 1}
\* An id no Job carries.
UnknownId == <<"none", 0>>
\* self._jobs.get(job_id) when the id is absent: None.
NoJob == 0

JobIdx == 1..MaxInputs

\* ---------------------------------------------------------------- EventBus: bounds and inputs
\* Calls of on() and of emit() in one behaviour, together; the calls of emit
\* made by handlers count.
MaxBusCalls == 4


\* The topics the JobQueue emits on.
Topics == {"task_log", "task_progress", "task_state"}
\* The handlers a subscriber can register, by what they do with a payload:
\* return, raise an Exception, or call emit on the same topic themselves
\* (once: for a payload that comes from another caller than a handler).
Handlers == {"ok", "raise", "reemit"}
\* Threads that call emit: worker threads of the pool, each inside _runner.
Emitters == {1, 2}
\* What _runner and job.run emit, in order, for a run that reads one line with
\* a step number and exits with code 0 (after the RUNNING event).
JobScript ==
  << [topic |-> "task_log", state |-> ""],
     [topic |-> "task_progress", state |-> ""],
     [topic |-> "task_state", state |-> "COMPLETED"] >>

\* ---------------------------------------------------------------- trainer: bounds and inputs
\* The largest total_steps run is called with directly.
MaxSteps == 11
\* Output lines of the external process and calls of the trainer's cancel in
\* one behaviour, together.
MaxRunInputs == 3

\* Python's None where a number is expected.
None == -1
\* self._proc before Popen.
NoProc == "None"

Max(a, b) == IF a >= b THEN a ELSE b

\* TrainingConfig values run is called with: the example of the specification,
\* an empty dataset, and one whose other fields are all 0.
RunConfigs ==
  { [dataset_size |-> 100, repeats |-> 2, batch_size |-> 4, grad_accum |-> 1, epochs |-> 3],
    [dataset_size |-> 0, repeats |-> 1, batch_size |-> 1, grad_accum |-> 1, epochs |-> 1],
    [dataset_size |-> 5, repeats |-> 0, batch_size |-> 0, grad_accum |-> 0, epochs |-> 0] }
\* Steps per second the simulation is observed to make (time.sleep(0.05) per
\* step allows at most 20).
SimRates == {1, 20}

\* ---------------------------------------------------------------- manager: bounds and inputs
\* The latest time (in seconds) of a progress event.
MaxTime == 12

\* TrainingConfig values total_steps is computed for.
Configs ==
  [dataset_size : {0, 5, 100}, repeats : {0, 2}, batch_size : {0, 4},
   grad_accum : {1, 2}, epochs : {0, 3}]
\* Seconds between two progress events of a job.
TimeSteps == {0, 1, 10}
\* Step numbers of progress payloads.
ProgressSteps == {10, 20, 120}
\* eta_secs of the payload the backend hands over: absent, zero or a value.
BackendEtas == {None, 0, 7}

\* ---- core/training TrainingManager
\* Calls of start_task, cancel_task and delete_task and lines printed, in all.
MaxTaskInputs == 3
\* Task ids (uuid4 strings of create_task), and the value for no task.
Tasks == {1, 2}
NoTask == 0
\* signal.SIGTERM: a process ended by it has returncode -SIGTERM.
SIGTERM == 15

VARIABLES
  max_workers,   \* ThreadPoolExecutor(max_workers=...)
  jobs,          \* the Job objects built so far: Seq of [id, trainer]
  _jobs,         \* JobQueue._jobs: id -> index of the Job registered under it, or NoJob
  workq,         \* the pool's FIFO work queue of _runner closures (by Job)
  pc,            \* per Job: where it is between construction and end of _runner
  nLines,        \* output lines read so far, by any run
  outcome,       \* per Job: how job.run ended: [kind, exit], exit the process's exit code
  runCount,      \* per Job: invocations of job.run
  cancelCount,   \* per Job: invocations of job.cancel
  cancelPc,      \* the cancelling thread: [stage, id, job]
  cancelLog,     \* completed JobQueue.cancel calls: Seq of [id, job, raised, result, escaped]
  nCancels,      \* JobQueue.cancel calls started
  events,        \* per Job: the payloads EventBus.emit was called with for it, in order
  \* ---- EventBus (BusSpec)
  _subs,         \* EventBus._subs: topic -> list of handlers, in registration order
  regs,          \* the calls of on() so far, in order: Seq of [topic, h]
  calls,         \* the calls of emit() so far, in order; a payload is known by its call
  stack,         \* per emitting thread: the emit calls it is inside of, innermost last
  delivered,     \* the handler invocations so far, in order: Seq of [call, h, thread]
  emitted,       \* per emitting thread: emits of its script that have returned
  aborted,       \* per emitting thread: an exception left emit and ended the run
  \* ---- MusubiQwenImageTrainer (TrainerSpec)
  run,           \* the activation of run(): its arguments, locals and position
  lines,         \* the output lines read from the process so far
  progress,      \* the payloads progress_cb was called with, in order
  _proc,         \* self._proc: NoProc or "Popen"
  proc,          \* the external process: [state, exit]
  rcancels,      \* the calls of cancel() so far: Seq of [had, reaped, before, after, raised]
  \* ---- TrainingManager (ManagerSpec)
  submitted,     \* the job run_training submitted: [cfg, total], or NoSubmission
  now,           \* the wall clock, in seconds
  _speed_cache,  \* the job's entry [t, s] of the speed cache, or NoEntry
  enriched,      \* the last payload _on_progress emitted, with what it was computed from
  \* ---- core/training TrainingManager with MusubiTrainer (TaskSpec)
  musubi_trainer,\* TrainingManager.musubi_trainer: "unset" before __init__, then "MusubiTrainer" or "None"
  tasks,         \* TrainingManager.tasks: the ids in the dict
  task,          \* the TrainingTask objects: per id [state]
  files,         \* per id: the task file tasks_dir/<id>.json exists
  thread,        \* per id: the thread executing run_training for it: [pc, via, result]
  musubi_proc,   \* MusubiTrainer._proc: NoTask, or the task whose process the Popen object is
  procs,         \* per id: the external training process launched for it: [state, exit]
  state_events,  \* the task_state callbacks of the manager so far: Seq of [task_id, state]
  started,       \* the start_task calls so far: Seq of [task_id, before, after, result, thread]
  canceling,     \* the cancel_task call in progress: [task_id, killed]
  cancelled,     \* the cancel_task calls that returned: Seq of [task_id, result, killed]
  deleted,       \* the delete_task calls that returned True: set of [task_id, thread]
  nTaskInputs    \* calls of the manager's methods and lines printed so far

queueVars == <<max_workers, jobs, _jobs, workq, pc, nLines, outcome, runCount,
               cancelCount, cancelPc, cancelLog, nCancels, events>>

busVars == <<_subs, regs, calls, stack, delivered, emitted, aborted>>

runVars == <<run, lines, progress, _proc, proc, rcancels>>

mgrVars == <<submitted, now, _speed_cache, enriched>>

taskVars == <<musubi_trainer, tasks, task, files, thread, musubi_proc, procs,
              state_events, started, canceling, cancelled, deleted, nTaskInputs>>

vars == <<queueVars, busVars, runVars, mgrVars, taskVars>>

\* ---------------------------------------------------------------- helpers
\* MusubiQwenImageTrainer.__init__: self._id = uuid.uuid4().hex, one per instance.
TrainerId(t) == <<"uuid", t>>

\* The id a caller gives the n-th Job object when it constructs the Job itself.
CallerId(n) == <<"job", n>>

Ids == {TrainerId(t) : t \in Trainers} \cup {CallerId(n) : n \in JobIdx} \cup {UnknownId}

TerminalStates == {"COMPLETED", "FAILED", "CANCELED"}

\* payload of bus.emit("task_state", {"id": ..., "state": ..., ["rc" | "error"]})
StateEvent(id, st, rc, err) ==
  [topic |-> "task_state", id |-> id, state |-> st, rc |-> rc, error |-> err]

\* payload of bus.emit("task_log", {"id": job.id, "line": line})
LogEvent(id) ==
  [topic |-> "task_log", id |-> id, state |-> "", rc |-> {}, error |-> FALSE]

\* payload of bus.emit("task_progress", {"id": job.id, **prog})
ProgressEvent(id) ==
  [topic |-> "task_progress", id |-> id, state |-> "", rc |-> {}, error |-> FALSE]

\* bus.emit(topic, payload) called by code that holds Job j
Emit(j, payloads) == [events EXCEPT ![j] = @ \o payloads]

\* Mutant of ResultState: the return code read as a truth value.
ResultStateTruthy(rc) == IF rc # 0 THEN "COMPLETED" ELSE "FAILED"

\* "COMPLETED" if rc == 0 else "FAILED"
ResultState(rc) == IF rc = 0 THEN "COMPLETED" ELSE "FAILED"

\* MusubiQwenImageTrainer.run: return self._proc.wait()
RunReturnValue(exitCode) == exitCode

\* The environment may still construct a Job, call cancel or print a line.
InputsLeft == Len(jobs) + nCancels + nLines < MaxInputs

\* Jobs a worker thread is executing _runner for.
Running == {j \in JobIdx : pc[j] = "running"}

\* The submitting thread holds a Job it has built and not yet finished submitting;
\* it builds and submits one Job after the other, so Jobs are submitted in the
\* order of their indices.
InSubmit == \E j \in JobIdx : pc[j] \in {"built", "registered"}

\* job.cancel() may raise only when the callable is not a trainer's cancel,
\* which swallows every exception.
CancelOutcomes(j) == IF jobs[j].trainer = 0 THEN BOOLEAN ELSE {FALSE}

\* run() has not been called: its arguments and locals have no value yet.
NotCalled ==
  [pc |-> "idle", mode |-> "none",
   cfg |-> [dataset_size |-> 0, repeats |-> 0, batch_size |-> 0, grad_accum |-> 0, epochs |-> 0],
   total_steps |-> 0, rate |-> 0, step |-> 0, steps_per_epoch |-> 0, total_epochs |-> 0,
   cur_step |-> 0, cur_epoch |-> 0, rc |-> None]

\* run_training has not been called.
NoSubmission == [cfg |-> NotCalled.cfg, total |-> None]
\* The speed cache has no entry for the job.
NoEntry == [t |-> None, s |-> None]
\* An ETA that is not known; a known one is the fraction num / den of seconds.
Unknown == [num |-> None, den |-> 1]
\* _on_progress has emitted nothing.
NoPayload == [step |-> None, eta_in |-> None, eta |-> Unknown, prev |-> NoEntry, at |-> None]

\* No thread executes run_training for the task.
NoThread == [pc |-> "none", via |-> "none", result |-> "none"]
\* No cancel_task call is in progress.
NotCanceling == [task_id |-> NoTask, killed |-> NoTask]

\* ---------------------------------------------------------------- initial state
Init ==
  /\ max_workers \in WorkerCounts
  /\ jobs = <<>>
  /\ _jobs = [i \in Ids |-> NoJob]
  /\ workq = <<>>
  /\ pc = [j \in JobIdx |-> "absent"]
  /\ nLines = 0
  /\ outcome = [j \in JobIdx |-> [kind |-> "none", exit |-> {}]]
  /\ runCount = [j \in JobIdx |-> 0]
  /\ cancelCount = [j \in JobIdx |-> 0]
  /\ cancelPc = [stage |-> "idle", id |-> UnknownId, job |-> NoJob]
  /\ cancelLog = <<>>
  /\ nCancels = 0
  /\ events = [j \in JobIdx |-> <<>>]
  /\ _subs = [topic \in Topics |-> <<>>]
  /\ regs = <<>>
  /\ calls = <<>>
  /\ stack = [t \in Emitters |-> <<>>]
  /\ delivered = <<>>
  /\ emitted = [t \in Emitters |-> 0]
  /\ aborted = [t \in Emitters |-> FALSE]
  /\ run = NotCalled
  /\ lines = <<>>
  /\ progress = <<>>
  /\ _proc = NoProc
  /\ proc = [state |-> "none", exit |-> 0]
  /\ rcancels = <<>>
  /\ submitted = NoSubmission
  /\ now = 0
  /\ _speed_cache = NoEntry
  /\ enriched = NoPayload
  /\ musubi_trainer = "unset"
  /\ tasks = {}
  /\ task = [t \in Tasks |-> [state |-> "none"]]
  /\ files = [t \in Tasks |-> FALSE]
  /\ thread = [t \in Tasks |-> NoThread]
  /\ musubi_proc = NoTask
  /\ procs = [t \in Tasks |-> [state |-> "none", exit |-> 0]]
  /\ state_events = <<>>
  /\ started = <<>>
  /\ canceling = NotCanceling
  /\ cancelled = <<>>
  /\ deleted = {}
  /\ nTaskInputs = 0

\* ---------------------------------------------------------------- Job construction
\* MusubiQwenImageTrainer.build_job: Job(id=self._id, ..., cancel=self.cancel)
BuildJob(t) ==
  /\ UNCHANGED <<busVars, runVars, mgrVars, taskVars>>
  /\ InputsLeft
  /\ ~InSubmit
  /\ jobs' = Append(jobs, [id |-> TrainerId(t), trainer |-> t])
  /\ pc' = [pc EXCEPT ![Len(jobs) + 1] = "built"]
  /\ UNCHANGED <<max_workers, _jobs, workq, nLines, outcome, runCount,
                 cancelCount, cancelPc, cancelLog, nCancels, events>>

\* Job(id, name, run, cancel) constructed by a caller with its own id and callables.
NewJob ==
  /\ UNCHANGED <<busVars, runVars, mgrVars, taskVars>>
  /\ InputsLeft
  /\ ~InSubmit
  /\ jobs' = Append(jobs, [id |-> CallerId(Len(jobs) + 1), trainer |-> 0])
  /\ pc' = [pc EXCEPT ![Len(jobs) + 1] = "built"]
  /\ UNCHANGED <<max_workers, _jobs, workq, nLines, outcome, runCount,
                 cancelCount, cancelPc, cancelLog, nCancels, events>>

\* ---------------------------------------------------------------- JobQueue.submit
\* with self._lock: self._jobs[job.id] = job
SubmitRegister(j) ==
  /\ UNCHANGED <<busVars, runVars, mgrVars, taskVars>>
  /\ pc[j] = "built"
  /\ _jobs' = [_jobs EXCEPT ![jobs[j].id] = j]
  /\ pc' = [pc EXCEPT ![j] = "registered"]
  /\ UNCHANGED <<max_workers, jobs, workq, nLines, outcome, runCount,
                 cancelCount, cancelPc, cancelLog, nCancels, events>>

\* Mutant of SubmitSchedule: the pool's queue holds one work item; a work item
\* handed over while it is full is dropped.
SubmitScheduleDropsWhenFull(j) ==
  /\ UNCHANGED <<busVars, runVars, mgrVars, taskVars>>
  /\ pc[j] = "registered"
  /\ events' = Emit(j, <<StateEvent(jobs[j].id, "QUEUED", {}, FALSE)>>)
  /\ workq' = IF workq = <<>> THEN Append(workq, j) ELSE workq
  /\ pc' = [pc EXCEPT ![j] = "scheduled"]
  /\ UNCHANGED <<max_workers, jobs, _jobs, nLines, outcome, runCount,
                 cancelCount, cancelPc, cancelLog, nCancels>>

\* Mutant of SubmitSchedule: submit hands the work item over only once a worker
\* is free, as a pool without a queue would.
SubmitScheduleWaits(j) ==
  /\ UNCHANGED <<busVars, runVars, mgrVars, taskVars>>
  /\ pc[j] = "registered"
  /\ Cardinality(Running) < max_workers
  /\ events' = Emit(j, <<StateEvent(jobs[j].id, "QUEUED", {}, FALSE)>>)
  /\ workq' = Append(workq, j)
  /\ pc' = [pc EXCEPT ![j] = "scheduled"]
  /\ UNCHANGED <<max_workers, jobs, _jobs, nLines, outcome, runCount,
                 cancelCount, cancelPc, cancelLog, nCancels>>

\* self.bus.emit("task_state", QUEUED); self.pool.submit(_runner); return job.id
SubmitSchedule(j) ==
  /\ UNCHANGED <<busVars, runVars, mgrVars, taskVars>>
  /\ pc[j] = "registered"
  /\ events' = Emit(j, <<StateEvent(jobs[j].id, "QUEUED", {}, FALSE)>>)
  /\ workq' = Append(workq, j)
  /\ pc' = [pc EXCEPT ![j] = "scheduled"]
  /\ UNCHANGED <<max_workers, jobs, _jobs, nLines, outcome, runCount,
                 cancelCount, cancelPc, cancelLog, nCancels>>

\* ---------------------------------------------------------------- the worker pool
\* Mutant of Dispatch: a work item is started whether or not a worker is free.
DispatchNoLimit ==
  /\ UNCHANGED <<busVars, runVars, mgrVars, taskVars>>
  /\ workq # <<>>
  /\ LET j == Head(workq) IN
       /\ workq' = Tail(workq)
       /\ events' = Emit(j, <<StateEvent(jobs[j].id, "RUNNING", {}, FALSE)>>)
       /\ pc' = [pc EXCEPT ![j] = "running"]
       /\ runCount' = [runCount EXCEPT ![j] = @ + 1]
  /\ UNCHANGED <<max_workers, jobs, _jobs, nLines, outcome,
                 cancelCount, cancelPc, cancelLog, nCancels>>

\* Mutant of Dispatch: the work item of a job that cancel has been called for
\* is dropped without running it.
DispatchSkipsCanceled ==
  /\ UNCHANGED <<busVars, runVars, mgrVars, taskVars>>
  /\ workq # <<>>
  /\ Cardinality(Running) < max_workers
  /\ LET j == Head(workq) IN
       /\ workq' = Tail(workq)
       /\ IF cancelCount[j] > 0
          THEN /\ pc' = [pc EXCEPT ![j] = "done"]
               /\ UNCHANGED <<events, runCount>>
          ELSE /\ events' = Emit(j, <<StateEvent(jobs[j].id, "RUNNING", {}, FALSE)>>)
               /\ pc' = [pc EXCEPT ![j] = "running"]
               /\ runCount' = [runCount EXCEPT ![j] = @ + 1]
  /\ UNCHANGED <<max_workers, jobs, _jobs, nLines, outcome,
                 cancelCount, cancelPc, cancelLog, nCancels>>

\* A free worker thread takes the oldest work item and enters _runner:
\* emit RUNNING, then call job.run(log_cb, progress_cb).
Dispatch ==
  /\ UNCHANGED <<busVars, runVars, mgrVars, taskVars>>
  /\ workq # <<>>
  /\ Cardinality(Running) < max_workers
  /\ LET j == Head(workq) IN
       /\ workq' = Tail(workq)
       /\ events' = Emit(j, <<StateEvent(jobs[j].id, "RUNNING", {}, FALSE)>>)
       /\ pc' = [pc EXCEPT ![j] = "running"]
       /\ runCount' = [runCount EXCEPT ![j] = @ + 1]
  /\ UNCHANGED <<max_workers, jobs, _jobs, nLines, outcome,
                 cancelCount, cancelPc, cancelLog, nCancels>>

\* run reads one output line: log_cb(line), and progress_cb({...}) when a step
\* number is known.
RunLine(j, withStep) ==
  /\ UNCHANGED <<busVars, runVars, mgrVars, taskVars>>
  /\ pc[j] = "running"
  /\ InputsLeft
  /\ nLines' = nLines + 1
  /\ events' = Emit(j, <<LogEvent(jobs[j].id)>>
                       \o (IF withStep THEN <<ProgressEvent(jobs[j].id)>> ELSE <<>>))
  /\ UNCHANGED <<max_workers, jobs, _jobs, workq, pc, outcome, runCount,
                 cancelCount, cancelPc, cancelLog, nCancels>>

\* The process exits with exitCode; run returns it; _runner emits the result
\* and the worker thread is free again.
RunReturn(j, exitCode) ==
  /\ UNCHANGED <<busVars, runVars, mgrVars, taskVars>>
  /\ pc[j] = "running"
  /\ LET rc == RunReturnValue(exitCode) IN
       /\ outcome' = [outcome EXCEPT ![j] = [kind |-> "return", exit |-> {exitCode}]]
       /\ events' = Emit(j, <<StateEvent(jobs[j].id, ResultState(rc), {rc}, FALSE)>>)
  /\ pc' = [pc EXCEPT ![j] = "done"]
  /\ UNCHANGED <<max_workers, jobs, _jobs, workq, nLines, runCount,
                 cancelCount, cancelPc, cancelLog, nCancels>>

\* Mutant of RunRaise: _runner without its except clause; the exception ends
\* the work item and no event is emitted.
RunRaiseUncaught(j) ==
  /\ UNCHANGED <<busVars, runVars, mgrVars, taskVars>>
  /\ pc[j] = "running"
  /\ outcome' = [outcome EXCEPT ![j] = [kind |-> "raise", exit |-> {}]]
  /\ pc' = [pc EXCEPT ![j] = "done"]
  /\ UNCHANGED <<max_workers, jobs, _jobs, workq, nLines, runCount,
                 cancelCount, cancelPc, cancelLog, nCancels, events>>

\* job.run raises: except Exception as e: emit FAILED with error = str(e);
\* the worker thread is free again.
RunRaise(j) ==
  /\ UNCHANGED <<busVars, runVars, mgrVars, taskVars>>
  /\ pc[j] = "running"
  /\ outcome' = [outcome EXCEPT ![j] = [kind |-> "raise", exit |-> {}]]
  /\ events' = Emit(j, <<StateEvent(jobs[j].id, "FAILED", {}, TRUE)>>)
  /\ pc' = [pc EXCEPT ![j] = "done"]
  /\ UNCHANGED <<max_workers, jobs, _jobs, workq, nLines, runCount,
                 cancelCount, cancelPc, cancelLog, nCancels>>

\* ---------------------------------------------------------------- JobQueue.cancel
\* Mutant of CancelAbsent: the lookup result is not tested and the call
\* reports success.
CancelAbsentTrue(id) ==
  /\ cancelLog' = Append(cancelLog,
       [id |-> id, job |-> NoJob, raised |-> FALSE, result |-> TRUE, escaped |-> FALSE])
  /\ UNCHANGED <<cancelCount, cancelPc, _jobs, events>>

\* if not job: return False
CancelAbsent(id) ==
  /\ cancelLog' = Append(cancelLog,
       [id |-> id, job |-> NoJob, raised |-> FALSE, result |-> FALSE, escaped |-> FALSE])
  /\ UNCHANGED <<cancelCount, cancelPc, _jobs, events>>

\* job = self._jobs.get(job_id); if not job: return False
\* try: job.cancel() ... except Exception: return False
CancelCall(id, raises) ==
  /\ UNCHANGED <<busVars, runVars, mgrVars, taskVars>>
  /\ cancelPc.stage = "idle"
  /\ InputsLeft
  /\ nCancels' = nCancels + 1
  /\ LET j == _jobs[id] IN
       IF j = NoJob
       THEN /\ raises = FALSE
            /\ CancelAbsent(id)
       ELSE /\ raises \in CancelOutcomes(j)
            /\ cancelCount' = [cancelCount EXCEPT ![j] = @ + 1]
            /\ IF raises
               THEN /\ cancelLog' = Append(cancelLog,
                         [id |-> id, job |-> j, raised |-> TRUE, result |-> FALSE, escaped |-> FALSE])
                    /\ UNCHANGED cancelPc
               ELSE /\ cancelPc' = [stage |-> "emit", id |-> id, job |-> j]
                    /\ UNCHANGED cancelLog
            /\ UNCHANGED <<_jobs, events>>
  /\ UNCHANGED <<max_workers, jobs, workq, pc, nLines, outcome, runCount>>

\* Mutant of CancelEmit: the call returns True without emitting CANCELED.
CancelEmitSilent ==
  /\ UNCHANGED <<busVars, runVars, mgrVars, taskVars>>
  /\ cancelPc.stage = "emit"
  /\ cancelLog' = Append(cancelLog,
       [id |-> cancelPc.id, job |-> cancelPc.job, raised |-> FALSE, result |-> TRUE, escaped |-> FALSE])
  /\ cancelPc' = [stage |-> "idle", id |-> UnknownId, job |-> NoJob]
  /\ UNCHANGED <<max_workers, jobs, _jobs, workq, pc, nLines, outcome, runCount,
                 cancelCount, nCancels, events>>

\* self.bus.emit("task_state", {"id": job_id, "state": "CANCELED"}); return True
CancelEmit ==
  /\ UNCHANGED <<busVars, runVars, mgrVars, taskVars>>
  /\ cancelPc.stage = "emit"
  /\ events' = Emit(cancelPc.job, <<StateEvent(cancelPc.id, "CANCELED", {}, FALSE)>>)
  /\ cancelLog' = Append(cancelLog,
       [id |-> cancelPc.id, job |-> cancelPc.job, raised |-> FALSE, result |-> TRUE, escaped |-> FALSE])
  /\ cancelPc' = [stage |-> "idle", id |-> UnknownId, job |-> NoJob]
  /\ UNCHANGED <<max_workers, jobs, _jobs, workq, pc, nLines, outcome, runCount,
                 cancelCount, nCancels>>

\* Ids another thread can pass to cancel: those of the Jobs built, and one of none.
CancelIds == {jobs[j].id : j \in 1..Len(jobs)} \cup {UnknownId}

\* ---------------------------------------------------------------- specification
Next ==
  \/ \E t \in Trainers : BuildJob(t)
  \/ NewJob
  \/ \E j \in JobIdx : SubmitRegister(j)
  \/ \E j \in JobIdx : SubmitSchedule(j)
  \/ Dispatch
  \/ \E j \in JobIdx, withStep \in BOOLEAN : RunLine(j, withStep)
  \/ \E j \in JobIdx, c \in ExitCodes : RunReturn(j, c)
  \/ \E j \in JobIdx : RunRaise(j)
  \/ \E id \in CancelIds, raises \in BOOLEAN : CancelCall(id, raises)
  \/ CancelEmit

Spec == Init /\ [][Next]_vars

\* A run that has been entered returns or raises.
RunFinish(j) == (\E c \in ExitCodes : RunReturn(j, c)) \/ RunRaise(j)

\* The threads keep running: the submitting thread finishes the submit it is in,
\* a free pool thread takes the next work item, and every run ends.
Fairness ==
  /\ WF_vars(\E j \in JobIdx : SubmitSchedule(j))
  /\ WF_vars(Dispatch)
  /\ \A j \in JobIdx : WF_vars(RunFinish(j))

FairSpec == Spec /\ Fairness

\* ================================================================ EventBus
\* One more call of on() or emit() may be made.
BusCallsLeft == Len(regs) + Len(calls) < MaxBusCalls

\* Innermost emit call of thread t.
Top(t) == stack[t][Len(stack[t])]

\* The emit call record; nregs is the number of on() calls made before it.
Call(topic, state, t, top) ==
  [topic |-> topic, state |-> state, thread |-> t, nregs |-> Len(regs),
   top |-> top, status |-> "open"]

\* for h in list(self._subs.get(topic, [])): the loop runs over a copy of the
\* list taken when emit is entered; i is the position of the next handler.
Frame(c, topic) == [call |-> c, snap |-> _subs[topic], i |-> 1]

\* The loop of the innermost emit of thread t moves to the next handler.
Advance(t) == [stack EXCEPT ![t][Len(stack[t])].i = @ + 1]

\* Mutant of On: the handler is put at the head of the list.
OnPrepend(topic, h) ==
  /\ BusCallsLeft
  /\ _subs' = [_subs EXCEPT ![topic] = <<h>> \o @]
  /\ regs' = Append(regs, [topic |-> topic, h |-> h])
  /\ UNCHANGED <<queueVars, runVars, mgrVars, taskVars, calls, stack, delivered, emitted, aborted>>

\* EventBus.on: self._subs[topic].append(handler)
On(topic, h) ==
  /\ BusCallsLeft
  /\ _subs' = [_subs EXCEPT ![topic] = Append(@, h)]
  /\ regs' = Append(regs, [topic |-> topic, h |-> h])
  /\ UNCHANGED <<queueVars, runVars, mgrVars, taskVars, calls, stack, delivered, emitted, aborted>>

\* Thread t, inside _runner, calls bus.emit with the next payload of its script.
EmitBegin(t) ==
  /\ stack[t] = <<>>
  /\ ~aborted[t]
  /\ emitted[t] < Len(JobScript)
  /\ BusCallsLeft
  /\ LET p == JobScript[emitted[t] + 1] IN
       /\ calls' = Append(calls, Call(p.topic, p.state, t, TRUE))
       /\ stack' = [stack EXCEPT ![t] = <<Frame(Len(calls) + 1, p.topic)>>]
  /\ UNCHANGED <<queueVars, runVars, mgrVars, taskVars, _subs, regs, delivered, emitted, aborted>>

\* Mutant of Invoke: the try statement encloses the loop, not the call of one
\* handler; an exception ends the loop and emit returns.
InvokeStopsLoop(t) ==
  /\ stack[t] # <<>>
  /\ Top(t).i <= Len(Top(t).snap)
  /\ LET f == Top(t)
         h == f.snap[f.i]
     IN /\ delivered' = Append(delivered, [call |-> f.call, h |-> h, thread |-> t])
        /\ IF h = "reemit" /\ calls[f.call].top /\ BusCallsLeft
           THEN /\ calls' = Append(calls, Call(calls[f.call].topic, "", t, FALSE))
                /\ stack' = [stack EXCEPT ![t] =
                               Append(Advance(t)[t], Frame(Len(calls) + 1, calls[f.call].topic))]
           ELSE /\ stack' = IF h = "raise"
                            THEN [stack EXCEPT ![t][Len(stack[t])].i = Len(f.snap) + 1]
                            ELSE Advance(t)
                /\ UNCHANGED calls
  /\ UNCHANGED <<queueVars, runVars, mgrVars, taskVars, _subs, regs, emitted, aborted>>

\* Mutant of Invoke: no try statement; an exception raised by a handler leaves
\* every emit the thread is inside of and ends the run of the job.
InvokeNoTry(t) ==
  /\ stack[t] # <<>>
  /\ Top(t).i <= Len(Top(t).snap)
  /\ LET f == Top(t)
         h == f.snap[f.i]
     IN /\ delivered' = Append(delivered, [call |-> f.call, h |-> h, thread |-> t])
        /\ IF h = "raise"
           THEN /\ calls' = [c \in DOMAIN calls |->
                               IF \E k \in DOMAIN stack[t] : stack[t][k].call = c
                               THEN [calls[c] EXCEPT !.status = "raised"] ELSE calls[c]]
                /\ stack' = [stack EXCEPT ![t] = <<>>]
                /\ aborted' = [aborted EXCEPT ![t] = TRUE]
           ELSE /\ IF h = "reemit" /\ calls[f.call].top /\ BusCallsLeft
                   THEN /\ calls' = Append(calls, Call(calls[f.call].topic, "", t, FALSE))
                        /\ stack' = [stack EXCEPT ![t] =
                                       Append(Advance(t)[t], Frame(Len(calls) + 1, calls[f.call].topic))]
                   ELSE /\ stack' = Advance(t)
                        /\ UNCHANGED calls
                /\ UNCHANGED aborted
  /\ UNCHANGED <<queueVars, runVars, mgrVars, taskVars, _subs, regs, emitted>>

\* try: h(payload) / except Exception: pass
\* The next handler of the loop is called on the emitting thread. A handler
\* that raises is left through the except clause and the loop goes on; a
\* handler that calls emit enters that emit before it returns.
Invoke(t) ==
  /\ stack[t] # <<>>
  /\ Top(t).i <= Len(Top(t).snap)
  /\ LET f == Top(t)
         h == f.snap[f.i]
     IN /\ delivered' = Append(delivered, [call |-> f.call, h |-> h, thread |-> t])
        /\ IF h = "reemit" /\ calls[f.call].top /\ BusCallsLeft
           THEN /\ calls' = Append(calls, Call(calls[f.call].topic, "", t, FALSE))
                /\ stack' = [stack EXCEPT ![t] =
                               Append(Advance(t)[t], Frame(Len(calls) + 1, calls[f.call].topic))]
           ELSE /\ stack' = Advance(t)
                /\ UNCHANGED calls
  /\ UNCHANGED <<queueVars, runVars, mgrVars, taskVars, _subs, regs, emitted, aborted>>

\* The loop is over: emit returns to its caller, a handler or the script.
EmitReturn(t) ==
  /\ stack[t] # <<>>
  /\ Top(t).i > Len(Top(t).snap)
  /\ LET c == Top(t).call IN
       /\ calls' = [calls EXCEPT ![c].status = "returned"]
       /\ emitted' = [emitted EXCEPT ![t] = IF calls[c].top THEN @ + 1 ELSE @]
  /\ stack' = [stack EXCEPT ![t] = SubSeq(@, 1, Len(@) - 1)]
  /\ UNCHANGED <<queueVars, runVars, mgrVars, taskVars, _subs, regs, delivered, aborted>>

BusNext ==
  \/ \E topic \in Topics, h \in Handlers : On(topic, h)
  \/ \E t \in Emitters : EmitBegin(t)
  \/ \E t \in Emitters : Invoke(t)
  \/ \E t \in Emitters : EmitReturn(t)

BusSpec == Init /\ [][BusNext]_vars

\* ================================================================ MusubiQwenImageTrainer
\* Mutant of StepsPerEpoch: floor division (//) in place of math.ceil(... / ...).
StepsPerEpochFloor(c) ==
  (c.dataset_size * Max(1, c.repeats)) \div Max(1, c.batch_size * Max(1, c.grad_accum))

\* steps_per_epoch = math.ceil((cfg.dataset_size * max(1, cfg.repeats))
\*                             / max(1, cfg.batch_size * max(1, cfg.grad_accum)))
\* (the ceiling of a quotient with a positive divisor, by floor division)
StepsPerEpoch(c) ==
  -((-(c.dataset_size * Max(1, c.repeats))) \div Max(1, c.batch_size * Max(1, c.grad_accum)))

\* TrainingManager.total_steps(cfg): steps_per_epoch * max(1, epochs)
TotalSteps(c) == StepsPerEpoch(c) * Max(1, c.epochs)

\* The values of total_steps run is called with for cfg c: the one the manager
\* computes and, for the simulation, every small one a caller of build_job
\* can pass itself.
StepCounts(c, script) == {TotalSteps(c)} \cup (IF script THEN {} ELSE 0..MaxSteps)

\* The process may still print a line, or cancel may still be called.
RunInputsLeft == Len(lines) + Len(rcancels) < MaxRunInputs

\* The lines the process can print next. Each of the four patterns (step X/Y,
\* epoch X/Y, ETA Ns, ips=V) is on the line or not; a field that is not on the
\* line is None. The process numbers its steps from 1 and prints a total of
\* its own, here one more than total_steps.
OutputLines ==
  { [step |-> st, total |-> IF st = None THEN None ELSE run.total_steps + 1,
     epoch |-> ep, eta |-> et, ips |-> ip] :
      st \in {None, Len(lines) + 1}, ep \in {None, 2}, et \in {None, 50}, ip \in {None, 4} }

\* run(log_cb, progress_cb, cfg, total_steps) is called. cmd = _compose_cmd(...)
\* is empty when MUSUBI_QWEN_TRAIN is not set (script = FALSE): simulation, with
\* its locals total_epochs and steps_per_epoch. Otherwise Popen starts the
\* process and the locals of the reading loop are set.
TrainerStart(c, n, script, r) ==
  /\ run.pc = "idle"
  /\ IF ~script
     THEN /\ run' = [run EXCEPT !.pc = "dry", !.mode = "dry", !.cfg = c, !.total_steps = n,
                                !.rate = r, !.total_epochs = Max(1, c.epochs),
                                !.steps_per_epoch = StepsPerEpoch(c)]
          /\ UNCHANGED <<_proc, proc>>
     ELSE /\ r = 1
          /\ run' = [run EXCEPT !.pc = "real", !.mode = "real", !.cfg = c, !.total_steps = n,
                                !.cur_step = 0, !.cur_epoch = 1,
                                !.total_epochs = Max(1, c.epochs)]
          /\ _proc' = "Popen"
          /\ proc' = [state |-> "running", exit |-> 0]
  /\ UNCHANGED <<queueVars, busVars, mgrVars, taskVars, lines, progress, rcancels>>

\* One iteration of for step in range(1, total_steps + 1):
\* epoch = 1 + (step - 1) // steps_per_epoch raises ZeroDivisionError when
\* steps_per_epoch is 0; every 10th step calls progress_cb, with the speed
\* sps = step / elapsed observed so far.
SimStep ==
  /\ run.pc = "dry"
  /\ run.step < run.total_steps
  /\ LET st == run.step + 1 IN
       IF run.steps_per_epoch = 0
       THEN /\ run' = [run EXCEPT !.pc = "raised", !.step = st]
            /\ UNCHANGED progress
       ELSE /\ run' = [run EXCEPT !.step = st]
            /\ progress' =
                 IF st % 10 = 0
                 THEN Append(progress,
                        [step |-> st, total_steps |-> run.total_steps,
                         epoch |-> 1 + (st - 1) \div run.steps_per_epoch,
                         total_epochs |-> run.total_epochs,
                         ips |-> run.rate * run.cfg.batch_size,
                         eta_secs |-> (run.total_steps - st) \div run.rate,
                         line |-> 0])
                 ELSE progress
  /\ UNCHANGED <<queueVars, busVars, mgrVars, taskVars, lines, _proc, proc, rcancels>>

\* The loop is over: log_cb("[DRYRUN] Training finished."); return 0
SimReturn ==
  /\ run.pc = "dry"
  /\ run.step >= run.total_steps
  /\ run' = [run EXCEPT !.pc = "returned", !.rc = 0]
  /\ UNCHANGED <<queueVars, busVars, mgrVars, taskVars, lines, progress, _proc, proc, rcancels>>

\* Mutant of ReadLine: the payload carries the total of the line's step X/Y.
ReadLinePrintedTotal(l) ==
  /\ run.pc = "real"
  /\ proc.state \in {"running", "stopping"}
  /\ RunInputsLeft
  /\ lines' = Append(lines, l)
  /\ LET cs == IF l.step # None THEN l.step ELSE run.cur_step
         ce == IF l.epoch # None THEN l.epoch ELSE run.cur_epoch
     IN /\ run' = [run EXCEPT !.cur_step = cs, !.cur_epoch = ce]
        /\ progress' =
             IF cs # 0
             THEN Append(progress,
                    [step |-> cs,
                     total_steps |-> IF l.total # None THEN l.total ELSE run.total_steps,
                     epoch |-> ce, total_epochs |-> run.total_epochs,
                     ips |-> l.ips, eta_secs |-> l.eta, line |-> Len(lines) + 1])
             ELSE progress
  /\ UNCHANGED <<queueVars, busVars, mgrVars, taskVars, _proc, proc, rcancels>>

\* One iteration of for raw in self._proc.stdout: log_cb(line); the step and
\* the epoch found on the line replace cur_step and cur_epoch; eta and ips are
\* set to None and then to what the line holds; if cur_step: progress_cb({...}).
ReadLine(l) ==
  /\ run.pc = "real"
  /\ proc.state \in {"running", "stopping"}
  /\ RunInputsLeft
  /\ lines' = Append(lines, l)
  /\ LET cs == IF l.step # None THEN l.step ELSE run.cur_step
         ce == IF l.epoch # None THEN l.epoch ELSE run.cur_epoch
     IN /\ run' = [run EXCEPT !.cur_step = cs, !.cur_epoch = ce]
        /\ progress' =
             IF cs # 0
             THEN Append(progress,
                    [step |-> cs, total_steps |-> run.total_steps,
                     epoch |-> ce, total_epochs |-> run.total_epochs,
                     ips |-> l.ips, eta_secs |-> l.eta, line |-> Len(lines) + 1])
             ELSE progress
  /\ UNCHANGED <<queueVars, busVars, mgrVars, taskVars, _proc, proc, rcancels>>

\* The process exits, by itself or because it was signalled; its output ends.
ProcExit(code) ==
  /\ proc.state \in {"running", "stopping"}
  /\ proc' = [state |-> "exited", exit |-> code]
  /\ UNCHANGED <<queueVars, busVars, mgrVars, taskVars, run, lines, progress, _proc, rcancels>>

\* The reading loop is over: return self._proc.wait()
WaitReturn ==
  /\ run.pc = "real"
  /\ proc.state = "exited"
  /\ run' = [run EXCEPT !.pc = "returned", !.rc = proc.exit]
  /\ UNCHANGED <<queueVars, busVars, mgrVars, taskVars, lines, progress, _proc, proc, rcancels>>

\* Mutant of TrainerCancel: no try statement around the signalling; the
\* ProcessLookupError for a process that wait() has reaped leaves cancel.
TrainerCancelNoTry ==
  /\ RunInputsLeft
  /\ LET had == _proc # NoProc
         after == IF had /\ proc.state = "running" THEN "stopping" ELSE proc.state
     IN /\ proc' = [proc EXCEPT !.state = after]
        /\ rcancels' = Append(rcancels,
             [had |-> had, reaped |-> run.pc = "returned", before |-> proc.state,
              after |-> after, raised |-> had /\ run.pc = "returned"])
  /\ UNCHANGED <<queueVars, busVars, mgrVars, taskVars, run, lines, progress, _proc>>

\* cancel(): p = self._proc; if not p: return. Otherwise the process group is
\* sent SIGTERM (CTRL_BREAK and terminate() on Windows); any exception, as for
\* a process that is gone, is caught, p.kill() is tried and its exception
\* caught too. self._proc is left as it is.
TrainerCancel ==
  /\ RunInputsLeft
  /\ LET had == _proc # NoProc
         after == IF had /\ proc.state = "running" THEN "stopping" ELSE proc.state
     IN /\ proc' = [proc EXCEPT !.state = after]
        /\ rcancels' = Append(rcancels,
             [had |-> had, reaped |-> run.pc = "returned", before |-> proc.state,
              after |-> after, raised |-> FALSE])
  /\ UNCHANGED <<queueVars, busVars, mgrVars, taskVars, run, lines, progress, _proc>>

TrainerNext ==
  \/ \E c \in RunConfigs, script \in BOOLEAN, r \in SimRates :
       \E n \in StepCounts(c, script) : TrainerStart(c, n, script, r)
  \/ SimStep
  \/ SimReturn
  \/ \E l \in OutputLines : ReadLine(l)
  \/ \E code \in ExitCodes : ProcExit(code)
  \/ WaitReturn
  \/ TrainerCancel

TrainerSpec == Init /\ [][TrainerNext]_vars

\* ================================================================ TrainingManager
\* The small positive value that elapsed time is floored to is 1 / EpsilonInverse
\* seconds.
EpsilonInverse == 1000

\* Mutant of EtaOf: the remaining work is not floored at 0.
EtaOfUnfloored(eta_in, cache, t, step, total) ==
  IF eta_in \notin {None, 0} THEN [num |-> eta_in, den |-> 1]
  ELSE IF cache = NoEntry THEN Unknown
  ELSE LET dt == IF t - cache.t > 0 THEN [num |-> t - cache.t, den |-> 1]
                 ELSE [num |-> 1, den |-> EpsilonInverse]
           ds == Max(0, step - cache.s)
           remain == total - step
       IN IF ds > 0 THEN [num |-> remain * dt.num, den |-> ds * dt.den] ELSE Unknown

\* The eta_secs _on_progress emits, as a fraction of seconds: a nonzero ETA of
\* the backend as it is; otherwise, with the cache entry (t0, s0) of the job:
\* dt = now - t0 floored to epsilon, ds = max(0, step - s0), sps = ds / dt,
\* remain = max(0, total - step), eta = remain / sps if sps > 0, else unknown.
EtaOf(eta_in, cache, t, step, total) ==
  IF eta_in \notin {None, 0} THEN [num |-> eta_in, den |-> 1]
  ELSE IF cache = NoEntry THEN Unknown
  ELSE LET dt == IF t - cache.t > 0 THEN [num |-> t - cache.t, den |-> 1]
                 ELSE [num |-> 1, den |-> EpsilonInverse]
           ds == Max(0, step - cache.s)
           remain == Max(0, total - step)
       IN IF ds > 0 THEN [num |-> remain * dt.num, den |-> ds * dt.den] ELSE Unknown

\* run_training(cfg): total = total_steps(cfg), computed once for the job.
RunTraining(c) ==
  /\ submitted = NoSubmission
  /\ submitted' = [cfg |-> c, total |-> TotalSteps(c)]
  /\ UNCHANGED <<queueVars, busVars, runVars, taskVars, now, _speed_cache, enriched>>

\* _on_progress: the runner hands over a payload with step and eta_in, dt
\* seconds after the previous one; the entry of the speed cache is read, the
\* payload is emitted with the ETA, and the entry becomes (now, step).
OnProgress(step, eta_in, dt) ==
  /\ submitted # NoSubmission
  /\ now + dt <= MaxTime
  /\ now' = now + dt
  /\ enriched' = [step |-> step, eta_in |-> eta_in,
                  eta |-> EtaOf(eta_in, _speed_cache, now', step, submitted.total),
                  prev |-> _speed_cache, at |-> now']
  /\ _speed_cache' = [t |-> now', s |-> step]
  /\ UNCHANGED <<queueVars, busVars, runVars, taskVars, submitted>>

ManagerNext ==
  \/ \E c \in Configs : RunTraining(c)
  \/ \E step \in ProgressSteps, eta_in \in BackendEtas, dt \in TimeSteps :
       OnProgress(step, eta_in, dt)

ManagerSpec == Init /\ [][ManagerNext]_vars

\* ================================================================ JobQueue running MusubiQwenImageTrainer
\* Job j was built by the trainer's build_job: a worker runs run() for it and
\* JobQueue.cancel calls the trainer's cancel().
TrainerJob(j) == j \in 1..Len(jobs) /\ jobs[j].trainer # 0

\* build_job is called once for the trainer; the other jobs are the caller's.
QueueBuildJob ==
  /\ \A j \in 1..Len(jobs) : jobs[j].trainer = 0
  /\ \E t \in Trainers : BuildJob(t)

\* The worker that entered job.run for the trainer's job gets as far as
\* self._proc = subprocess.Popen(...): cmd is composed, the environment copied
\* and the process started.
WorkerPopen(j) ==
  /\ TrainerJob(j)
  /\ pc[j] = "running"
  /\ \E c \in RunConfigs : TrainerStart(c, TotalSteps(c), TRUE, 1)

\* One iteration of the reading loop inside the worker: log_cb(line) emits
\* task_log, and progress_cb emits task_progress if cur_step is nonzero.
WorkerReadLine(j, l) ==
  /\ TrainerJob(j)
  /\ pc[j] = "running"
  /\ run.pc = "real"
  /\ proc.state \in {"running", "stopping"}
  /\ InputsLeft
  /\ RunInputsLeft
  /\ nLines' = nLines + 1
  /\ lines' = Append(lines, l)
  /\ LET cs == IF l.step # None THEN l.step ELSE run.cur_step
         ce == IF l.epoch # None THEN l.epoch ELSE run.cur_epoch
     IN /\ run' = [run EXCEPT !.cur_step = cs, !.cur_epoch = ce]
        /\ progress' =
             IF cs # 0
             THEN Append(progress,
                    [step |-> cs, total_steps |-> run.total_steps,
                     epoch |-> ce, total_epochs |-> run.total_epochs,
                     ips |-> l.ips, eta_secs |-> l.eta, line |-> Len(lines) + 1])
             ELSE progress
        /\ events' = Emit(j, <<LogEvent(jobs[j].id)>>
                             \o (IF cs # 0 THEN <<ProgressEvent(jobs[j].id)>> ELSE <<>>))
  /\ UNCHANGED <<max_workers, jobs, _jobs, workq, pc, outcome, runCount,
                 cancelCount, cancelPc, cancelLog, nCancels>>
  /\ UNCHANGED <<busVars, mgrVars, taskVars, _proc, proc, rcancels>>

\* The output stream is closed: the loop ends, run returns self._proc.wait(),
\* _runner emits COMPLETED or FAILED with rc and the worker is free again.
WorkerReturn(j) ==
  /\ TrainerJob(j)
  /\ pc[j] = "running"
  /\ run.pc = "real"
  /\ proc.state = "exited"
  /\ run' = [run EXCEPT !.pc = "returned", !.rc = proc.exit]
  /\ outcome' = [outcome EXCEPT ![j] = [kind |-> "return", exit |-> {proc.exit}]]
  /\ events' = Emit(j, <<StateEvent(jobs[j].id, ResultState(proc.exit), {proc.exit}, FALSE)>>)
  /\ pc' = [pc EXCEPT ![j] = "done"]
  /\ UNCHANGED <<max_workers, jobs, _jobs, workq, nLines, runCount,
                 cancelCount, cancelPc, cancelLog, nCancels>>
  /\ UNCHANGED <<busVars, mgrVars, taskVars, lines, progress, _proc, proc, rcancels>>

\* The run of a job of the caller returns or raises.
CallerRunEnds(j) ==
  /\ j \in 1..Len(jobs)
  /\ jobs[j].trainer = 0
  /\ RunFinish(j)

\* JobQueue.cancel(id) for a job whose run is executing: the job is looked up
\* and job.cancel() is called. For the trainer's job that is cancel():
\* p = self._proc; if not p: return; otherwise the process group is signalled.
\* The caller's cancel callables do nothing here.
CancelRunning(id) ==
  /\ cancelPc.stage = "idle"
  /\ InputsLeft
  /\ RunInputsLeft
  /\ _jobs[id] # NoJob
  /\ LET j == _jobs[id] IN
       /\ pc[j] = "running"
       /\ nCancels' = nCancels + 1
       /\ cancelCount' = [cancelCount EXCEPT ![j] = @ + 1]
       /\ cancelPc' = [stage |-> "emit", id |-> id, job |-> j]
       /\ IF TrainerJob(j)
          THEN LET had == _proc # NoProc
                   after == IF had /\ proc.state = "running" THEN "stopping" ELSE proc.state
               IN /\ proc' = [proc EXCEPT !.state = after]
                  /\ rcancels' = Append(rcancels,
                       [had |-> had, reaped |-> run.pc = "returned", before |-> proc.state,
                        after |-> after, raised |-> FALSE])
          ELSE UNCHANGED <<proc, rcancels>>
  /\ UNCHANGED <<max_workers, jobs, _jobs, workq, pc, nLines, outcome, runCount,
                 cancelLog, events>>
  /\ UNCHANGED <<busVars, mgrVars, taskVars, run, lines, progress, _proc>>

\* The process exits because it was asked to stop.
StoppedProcExits == proc.state = "stopping" /\ \E code \in ExitCodes : ProcExit(code)

CancelNext ==
  \/ QueueBuildJob
  \/ NewJob
  \/ \E j \in JobIdx : SubmitRegister(j)
  \/ \E j \in JobIdx : SubmitSchedule(j)
  \/ Dispatch
  \/ \E j \in JobIdx : WorkerPopen(j)
  \/ \E j \in JobIdx, l \in OutputLines : WorkerReadLine(j, l)
  \/ \E code \in ExitCodes : ProcExit(code)
  \/ \E j \in JobIdx : WorkerReturn(j)
  \/ \E j \in JobIdx : CallerRunEnds(j)
  \/ \E id \in CancelIds : CancelRunning(id)
  \/ CancelEmit

\* Fair scheduling: every thread keeps running (the submitting thread, the pool
\* threads up to and after Popen, the cancelling thread), the caller's runs
\* end, and the process exits when it was asked to stop.
CancelSpec ==
  /\ Init
  /\ [][CancelNext]_vars
  /\ WF_vars(\E j \in JobIdx : SubmitSchedule(j))
  /\ WF_vars(Dispatch)
  /\ WF_vars(CancelEmit)
  /\ WF_vars(StoppedProcExits)
  /\ \A j \in JobIdx :
       /\ WF_vars(WorkerPopen(j))
       /\ WF_vars(WorkerReturn(j))
       /\ WF_vars(CallerRunEnds(j))

\* ================================================================ core/training TrainingManager and MusubiTrainer
\* One more call of start_task, cancel_task or delete_task may be made, or one
\* more line printed.
TaskInputsLeft == nTaskInputs < MaxTaskInputs

\* The task a job was built for by MusubiTrainer.build_job(task): the k-th job
\* is built for task k. Such a task is the caller's, not one of the manager's.
TaskOf(j) == j

\* A Python bool where an int is expected: True is 1 and False is 0.
BoolAsInt(b) == IF b = "True" THEN 1 ELSE 0

\* The callbacks run_training is given. Those of start_task lead to _on_progress
\* and _on_log: task = self.get_task(task_id); if task: ... self.save_task(task).
\* Those of JobQueue._runner emit on the bus and touch no file.
CallbackSaves(t) ==
  IF thread[t].via = "thread" /\ t \in tasks THEN [files EXCEPT ![t] = TRUE] ELSE files

\* TrainingManager.__init__: self.musubi_trainer = MusubiTrainer(self.bus), or
\* None when the constructor raises.
ManagerInit(ok) ==
  /\ musubi_trainer = "unset"
  /\ musubi_trainer' = IF ok THEN "MusubiTrainer" ELSE "None"
  /\ UNCHANGED <<queueVars, busVars, runVars, mgrVars>>
  /\ UNCHANGED <<tasks, task, files, thread, musubi_proc, procs, state_events, started,
                 canceling, cancelled, deleted, nTaskInputs>>

\* create_task(config): a TrainingTask in state PENDING is put into self.tasks
\* under a fresh uuid4 and saved.
CreateTask(t) ==
  /\ musubi_trainer # "unset"
  /\ task[t].state = "none"
  /\ t = TaskOf(1) => jobs = <<>>
  /\ tasks' = tasks \cup {t}
  /\ task' = [task EXCEPT ![t].state = "pending"]
  /\ files' = [files EXCEPT ![t] = TRUE]
  /\ UNCHANGED <<queueVars, busVars, runVars, mgrVars>>
  /\ UNCHANGED <<musubi_trainer, thread, musubi_proc, procs, state_events, started,
                 canceling, cancelled, deleted, nTaskInputs>>

\* start_task(task_id). An unknown id raises TrainingNotFoundError, caught:
\* False. A task that is not PENDING: False. Otherwise task.state = RUNNING and
\* save_task; then, if self.musubi_trainer is None, TrainingError is raised and
\* caught: False. Otherwise the training thread is started: True.
StartTask(t) ==
  /\ musubi_trainer # "unset"
  /\ TaskInputsLeft
  /\ nTaskInputs' = nTaskInputs + 1
  /\ IF t \notin tasks
     THEN /\ started' = Append(started, [task_id |-> t, before |-> "absent", after |-> "absent",
                                         result |-> FALSE, thread |-> FALSE])
          /\ UNCHANGED <<task, files, thread>>
     ELSE IF task[t].state # "pending"
     THEN /\ started' = Append(started, [task_id |-> t, before |-> task[t].state,
                                         after |-> task[t].state,
                                         result |-> FALSE, thread |-> FALSE])
          /\ UNCHANGED <<task, files, thread>>
     ELSE /\ task' = [task EXCEPT ![t].state = "running"]
          /\ files' = [files EXCEPT ![t] = TRUE]
          /\ IF musubi_trainer = "None"
             THEN /\ started' = Append(started, [task_id |-> t, before |-> "pending",
                                                 after |-> "running",
                                                 result |-> FALSE, thread |-> FALSE])
                  /\ UNCHANGED thread
             ELSE /\ started' = Append(started, [task_id |-> t, before |-> "pending",
                                                 after |-> "running",
                                                 result |-> TRUE, thread |-> TRUE])
                  /\ thread' = [thread EXCEPT ![t] = [pc |-> "started", via |-> "thread",
                                                      result |-> "none"]]
  /\ UNCHANGED <<queueVars, busVars, runVars, mgrVars>>
  /\ UNCHANGED <<musubi_trainer, tasks, musubi_proc, procs, state_events,
                 canceling, cancelled, deleted>>

\* MusubiTrainer.build_job(task) for a task of the caller.
TaskBuildJob ==
  /\ musubi_trainer = "MusubiTrainer"
  /\ jobs = <<>>
  /\ task[TaskOf(1)].state = "none"
  /\ \E t \in Trainers : BuildJob(t)

\* The worker that emitted RUNNING calls job.run, which is
\* lambda log_cb, progress_cb: self.run_training(task, progress_cb, log_cb).
WorkerRunTraining(j) ==
  /\ j \in 1..Len(jobs)
  /\ pc[j] = "running"
  /\ thread[TaskOf(j)].pc = "none"
  /\ task' = [task EXCEPT ![TaskOf(j)].state = "pending"]
  /\ thread' = [thread EXCEPT ![TaskOf(j)] = [pc |-> "started", via |-> "queue",
                                              result |-> "none"]]
  /\ UNCHANGED <<queueVars, busVars, runVars, mgrVars>>
  /\ UNCHANGED <<musubi_trainer, tasks, files, musubi_proc, procs, state_events, started,
                 canceling, cancelled, deleted, nTaskInputs>>

\* run_training: task.state = PREPARING; progress_callback({"state": ...})
RunTrainingBegin(t) ==
  /\ thread[t].pc = "started"
  /\ task' = [task EXCEPT ![t].state = "preparing"]
  /\ files' = CallbackSaves(t)
  /\ thread' = [thread EXCEPT ![t].pc = "preparing"]
  /\ UNCHANGED <<queueVars, busVars, runVars, mgrVars>>
  /\ UNCHANGED <<musubi_trainer, tasks, musubi_proc, procs, state_events, started,
                 canceling, cancelled, deleted, nTaskInputs>>

\* prepare_training or the cache steps fail: task.state = FAILED; return False.
\* A failed cache step returns at once; an exception reports through
\* progress_callback first.
PrepareFails(t, raises) ==
  /\ thread[t].pc = "preparing"
  /\ task' = [task EXCEPT ![t].state = "failed"]
  /\ files' = IF raises THEN CallbackSaves(t) ELSE files
  /\ thread' = [thread EXCEPT ![t].pc = "returned", ![t].result = "False"]
  /\ UNCHANGED <<queueVars, busVars, runVars, mgrVars>>
  /\ UNCHANGED <<musubi_trainer, tasks, musubi_proc, procs, state_events, started,
                 canceling, cancelled, deleted, nTaskInputs>>

\* The cache steps succeeded: task.state = RUNNING; progress_callback({...})
PrepareDone(t) ==
  /\ thread[t].pc = "preparing"
  /\ task' = [task EXCEPT ![t].state = "running"]
  /\ files' = CallbackSaves(t)
  /\ thread' = [thread EXCEPT ![t].pc = "launching"]
  /\ UNCHANGED <<queueVars, busVars, runVars, mgrVars>>
  /\ UNCHANGED <<musubi_trainer, tasks, musubi_proc, procs, state_events, started,
                 canceling, cancelled, deleted, nTaskInputs>>

\* self._proc = subprocess.Popen(cmd, ...): the one attribute of the one
\* MusubiTrainer now refers to the process of this task.
TaskPopen(t) ==
  /\ thread[t].pc = "launching"
  /\ musubi_proc' = t
  /\ procs' = [procs EXCEPT ![t] = [state |-> "running", exit |-> 0]]
  /\ files' = CallbackSaves(t)
  /\ thread' = [thread EXCEPT ![t].pc = "monitoring"]
  /\ UNCHANGED <<queueVars, busVars, runVars, mgrVars>>
  /\ UNCHANGED <<musubi_trainer, tasks, task, state_events, started,
                 canceling, cancelled, deleted, nTaskInputs>>

\* _monitor_training, one iteration that reads a line from self._proc.stdout:
\* log_callback(line), and progress_callback for a line with progress.
MonitorLine(t) ==
  /\ thread[t].pc = "monitoring"
  /\ musubi_proc # NoTask
  /\ procs[musubi_proc].state = "running"
  /\ TaskInputsLeft
  /\ nTaskInputs' = nTaskInputs + 1
  /\ files' = CallbackSaves(t)
  /\ UNCHANGED <<queueVars, busVars, runVars, mgrVars>>
  /\ UNCHANGED <<musubi_trainer, tasks, task, thread, musubi_proc, procs, state_events,
                 started, canceling, cancelled, deleted>>

\* _monitor_training ends. With self._proc None, self._proc.stdout raises
\* AttributeError: task.state = FAILED, return False. Otherwise readline()
\* returned '' and poll() a return code, of the process self._proc refers to:
\* 0 gives COMPLETED and True, anything else FAILED and False. Either way
\* progress_callback reports the state.
MonitorEnds(t) ==
  /\ thread[t].pc = "monitoring"
  /\ \/ musubi_proc = NoTask
     \/ musubi_proc # NoTask /\ procs[musubi_proc].state = "exited"
  /\ LET ok == musubi_proc # NoTask /\ procs[musubi_proc].exit = 0 IN
       /\ task' = [task EXCEPT ![t].state = IF ok THEN "completed" ELSE "failed"]
       /\ thread' = [thread EXCEPT ![t].pc = "returned",
                                   ![t].result = IF ok THEN "True" ELSE "False"]
  /\ files' = CallbackSaves(t)
  /\ UNCHANGED <<queueVars, busVars, runVars, mgrVars>>
  /\ UNCHANGED <<musubi_trainer, tasks, musubi_proc, procs, state_events, started,
                 canceling, cancelled, deleted, nTaskInputs>>

\* The training process of task t exits by itself.
TaskProcExit(t, code) ==
  /\ procs[t].state = "running"
  /\ procs' = [procs EXCEPT ![t] = [state |-> "exited", exit |-> code]]
  /\ UNCHANGED <<queueVars, busVars, runVars, mgrVars>>
  /\ UNCHANGED <<musubi_trainer, tasks, task, files, thread, musubi_proc, state_events,
                 started, canceling, cancelled, deleted, nTaskInputs>>

\* The closure run_training of start_task after the trainer returned:
\* task.state = COMPLETED if success else FAILED; finally: save_task(task) and
\* the task_state callbacks.
ThreadFinish(t) ==
  /\ thread[t].pc = "returned"
  /\ thread[t].via = "thread"
  /\ LET st == IF thread[t].result = "True" THEN "completed" ELSE "failed" IN
       /\ task' = [task EXCEPT ![t].state = st]
       /\ state_events' = Append(state_events, [task_id |-> t, state |-> st])
  /\ files' = [files EXCEPT ![t] = TRUE]
  /\ thread' = [thread EXCEPT ![t].pc = "done"]
  /\ UNCHANGED <<queueVars, busVars, runVars, mgrVars>>
  /\ UNCHANGED <<musubi_trainer, tasks, musubi_proc, procs, started,
                 canceling, cancelled, deleted, nTaskInputs>>

\* job.run returns what run_training returned, a bool, to _runner, which
\* emits "COMPLETED" if rc == 0 else "FAILED".
MusubiJobReturn(j) ==
  /\ j \in 1..Len(jobs)
  /\ thread[TaskOf(j)].pc = "returned"
  /\ thread[TaskOf(j)].via = "queue"
  /\ RunReturn(j, BoolAsInt(thread[TaskOf(j)].result))

\* cancel_task(task_id) up to the return of cancel_training. An unknown task
\* or one that is not RUNNING: False. Otherwise, if self.musubi_trainer:
\* cancel_training(): if self._proc and self._proc.poll() is None, the process
\* self._proc refers to is sent SIGTERM and waited for (killed after 10 s),
\* and finally self._proc = None.
CancelTaskBegin(t) ==
  /\ musubi_trainer # "unset"
  /\ canceling = NotCanceling
  /\ TaskInputsLeft
  /\ nTaskInputs' = nTaskInputs + 1
  /\ IF t \notin tasks \/ task[t].state # "running"
     THEN /\ cancelled' = Append(cancelled, [task_id |-> t, result |-> FALSE, killed |-> NoTask])
          /\ UNCHANGED <<canceling, musubi_proc, procs>>
     ELSE /\ UNCHANGED cancelled
          /\ IF /\ musubi_trainer = "MusubiTrainer"
                /\ musubi_proc # NoTask
                /\ procs[musubi_proc].state = "running"
             THEN /\ procs' = [procs EXCEPT ![musubi_proc] = [state |-> "exited", exit |-> -SIGTERM]]
                  /\ musubi_proc' = NoTask
                  /\ canceling' = [task_id |-> t, killed |-> musubi_proc]
             ELSE /\ canceling' = [task_id |-> t, killed |-> NoTask]
                  /\ UNCHANGED <<musubi_proc, procs>>
  /\ UNCHANGED <<queueVars, busVars, runVars, mgrVars>>
  /\ UNCHANGED <<musubi_trainer, tasks, task, files, thread, state_events, started, deleted>>

\* cancel_task, the rest: task.state = CANCELLED; save_task(task); the
\* task_state callbacks; return True.
CancelTaskEnd ==
  /\ canceling # NotCanceling
  /\ LET t == canceling.task_id IN
       /\ task' = [task EXCEPT ![t].state = "cancelled"]
       /\ files' = [files EXCEPT ![t] = TRUE]
       /\ state_events' = Append(state_events, [task_id |-> t, state |-> "cancelled"])
       /\ cancelled' = Append(cancelled, [task_id |-> t, result |-> TRUE,
                                          killed |-> canceling.killed])
  /\ canceling' = NotCanceling
  /\ UNCHANGED <<queueVars, busVars, runVars, mgrVars>>
  /\ UNCHANGED <<musubi_trainer, tasks, thread, musubi_proc, procs, started, deleted,
                 nTaskInputs>>

\* delete_task(task_id): an unknown task: False; a task whose state is RUNNING:
\* False; otherwise the task file is unlinked and the task removed from
\* self.tasks: True.
DeleteTask(t) ==
  /\ musubi_trainer # "unset"
  /\ TaskInputsLeft
  /\ nTaskInputs' = nTaskInputs + 1
  /\ IF t \notin tasks \/ task[t].state = "running"
     THEN UNCHANGED <<tasks, files, deleted>>
     ELSE /\ tasks' = tasks \ {t}
          /\ files' = [files EXCEPT ![t] = FALSE]
          /\ deleted' = deleted \cup {[task_id |-> t, thread |-> thread[t].pc]}
  /\ UNCHANGED <<queueVars, busVars, runVars, mgrVars>>
  /\ UNCHANGED <<musubi_trainer, task, thread, musubi_proc, procs, state_events, started,
                 canceling, cancelled>>

TaskNext ==
  \/ \E ok \in BOOLEAN : ManagerInit(ok)
  \/ \E t \in Tasks : CreateTask(t)
  \/ \E t \in Tasks : StartTask(t)
  \/ TaskBuildJob
  \/ \E j \in JobIdx : SubmitRegister(j)
  \/ \E j \in JobIdx : SubmitSchedule(j)
  \/ Dispatch
  \/ \E j \in JobIdx : WorkerRunTraining(j)
  \/ \E t \in Tasks : RunTrainingBegin(t)
  \/ \E t \in Tasks, raises \in BOOLEAN : PrepareFails(t, raises)
  \/ \E t \in Tasks : PrepareDone(t)
  \/ \E t \in Tasks : TaskPopen(t)
  \/ \E t \in Tasks : MonitorLine(t)
  \/ \E t \in Tasks : MonitorEnds(t)
  \/ \E t \in Tasks, code \in ExitCodes : TaskProcExit(t, code)
  \/ \E t \in Tasks : ThreadFinish(t)
  \/ \E j \in JobIdx : MusubiJobReturn(j)
  \/ \E t \in Tasks : CancelTaskBegin(t)
  \/ CancelTaskEnd
  \/ \E t \in Tasks : DeleteTask(t)

TaskSpec == Init /\ [][TaskNext]_vars

\* ================================================================ claims
\* Positions in the event sequence of Job j.
Pos(j) == 1..Len(events[j])

IsState(e, states) == e.topic = "task_state" /\ e.state \in states

\* Positions of the task_state events of Job j whose state is in states.
StatePos(j, states) == {i \in Pos(j) : IsState(events[j][i], states)}

\* Positions of the task_log and task_progress events of Job j.
OutputPos(j) == {i \in Pos(j) : events[j][i].topic \in {"task_log", "task_progress"}}

\* The state of the most recent task_state event of Job j ("" when there is none).
LastState(j) ==
  LET sp == StatePos(j, {"QUEUED", "RUNNING"} \cup TerminalStates) IN
    IF sp = {} THEN "" ELSE events[j][CHOOSE i \in sp : \A k \in sp : k <= i].state

\* JobQueue.submit has been called with Job j.
Submitted(j) == pc[j] \in {"registered", "scheduled", "running", "done"}

\* ---------------------------------------------------------------- C1
\* C1: for every job at most one terminal task_state event (COMPLETED, FAILED,
\* CANCELED) is emitted, and no task_state event of the job follows a terminal
\* one. The code does not keep this: cancel emits CANCELED whatever the job's
\* state, and the worker emits RUNNING / COMPLETED / FAILED whatever cancel did.
C1_OneTerminalEvent ==
  \A j \in JobIdx :
    /\ Cardinality(StatePos(j, TerminalStates)) <= 1
    /\ \A i \in StatePos(j, TerminalStates) :
         \A k \in Pos(j) : k > i => events[j][k].topic # "task_state"

\* ---------------------------------------------------------------- C2
\* C2: when cancel is called for a submitted job before a worker has dispatched
\* it, the job goes to CANCELED and no RUNNING event of it is emitted afterwards;
\* when it was already dispatched, CANCELED follows RUNNING. The code still
\* runs the work item of a cancelled job.
C2_NoRunningAfterEarlyCancel ==
  \A j \in JobIdx :
    \A i \in StatePos(j, {"CANCELED"}) :
      (\A r \in StatePos(j, {"RUNNING"}) : r > i) => StatePos(j, {"RUNNING"}) = {}

\* ---------------------------------------------------------------- C3
\* C3: under every interleaving with cancel calls of other threads, the QUEUED
\* event of a job precedes every other event of the job, and its RUNNING event
\* precedes its COMPLETED / FAILED event and its task_log / task_progress
\* events. The code registers the job before it emits QUEUED, so a cancel in
\* between emits CANCELED first.
C3_QueuedThenRunningFirst ==
  \A j \in JobIdx :
    /\ \A i \in Pos(j) \ StatePos(j, {"QUEUED"}) :
         \E q \in StatePos(j, {"QUEUED"}) : q < i
    /\ \A i \in StatePos(j, {"COMPLETED", "FAILED"}) \cup OutputPos(j) :
         \E r \in StatePos(j, {"RUNNING"}) : r < i
\* ---------------------------------------------------------------- C4
\* C4: with max_workers = 1, at most one job has RUNNING as its most recent
\* task_state event; a later-submitted job has no RUNNING event before every
\* earlier-submitted job has a terminal event, and until then its most recent
\* state is QUEUED (CANCELED when cancel was called for it).
C4_OneRunningAtATime ==
  max_workers = 1 =>
    /\ Cardinality({j \in JobIdx : LastState(j) = "RUNNING"}) <= 1
    /\ \A k \in JobIdx : \A j \in JobIdx :
         (k < j /\ Submitted(k) /\ StatePos(k, TerminalStates) = {}) =>
           /\ StatePos(j, {"RUNNING"}) = {}
           /\ LastState(j) \in {"", "QUEUED", "CANCELED"}
           /\ StatePos(j, {"CANCELED"}) = {} => LastState(j) \in {"", "QUEUED"}

\* Two jobs on one worker: the first is running, the second waits as QUEUED.
C4_Witness ==
  /\ max_workers = 1
  /\ LastState(1) = "RUNNING"
  /\ LastState(2) = "QUEUED"

\* ---------------------------------------------------------------- C5
\* Completed cancel calls that found Job j in the registry.
CallsOn(j) == {i \in DOMAIN cancelLog : cancelLog[i].job = j}

\* The cancelling thread is inside a call that found Job j.
InCancel(j) == IF cancelPc.stage = "emit" /\ cancelPc.job = j THEN 1 ELSE 0

\* C5 as claimed: every cancel call for a registered id emits CANCELED and
\* returns true, also when job.cancel() raises.
C5_CancelAlwaysTrue ==
  \A j \in JobIdx :
    /\ \A i \in CallsOn(j) : cancelLog[i].result /\ ~cancelLog[i].escaped
    /\ Cardinality(StatePos(j, {"CANCELED"})) = Cardinality(CallsOn(j))

\* C5 as amended: a cancel call for a registered id invokes job.cancel() once;
\* when job.cancel() returns, the call emits CANCELED for the id and returns
\* true; when job.cancel() raises, the exception does not leave the call, no
\* CANCELED event is emitted and the call returns false.
C5_CancelResult ==
  \A j \in JobIdx :
    /\ cancelCount[j] = Cardinality(CallsOn(j)) + InCancel(j)
    /\ \A i \in CallsOn(j) :
         /\ ~cancelLog[i].escaped
         /\ cancelLog[i].result = ~cancelLog[i].raised
         /\ cancelLog[i].id = jobs[j].id
    /\ Cardinality(StatePos(j, {"CANCELED"}))
         = Cardinality({i \in CallsOn(j) : cancelLog[i].result})
    /\ \A i \in StatePos(j, {"CANCELED"}) : events[j][i].id = jobs[j].id

\* One cancel call whose job.cancel() raised and one that returned true.
C5_Witness ==
  /\ \E i \in DOMAIN cancelLog : cancelLog[i].job # NoJob /\ cancelLog[i].raised
  /\ \E i \in DOMAIN cancelLog : cancelLog[i].job # NoJob /\ cancelLog[i].result

\* ---------------------------------------------------------------- C6
\* C6: a cancel call for an id that was never submitted returns false, emits no
\* event and leaves the registry as it was.
C6_CancelUnknownId ==
  [][ (/\ Len(cancelLog') = Len(cancelLog) + 1
       /\ _jobs[cancelLog'[Len(cancelLog')].id] = NoJob)
      => (/\ cancelLog'[Len(cancelLog')].result = FALSE
          /\ cancelLog'[Len(cancelLog')].escaped = FALSE
          /\ events' = events
          /\ _jobs' = _jobs) ]_vars

\* A cancel call for an unknown id has returned while a job is registered.
C6_Witness ==
  /\ \E i \in DOMAIN cancelLog : cancelLog[i].job = NoJob /\ ~cancelLog[i].result
  /\ \E j \in JobIdx : Submitted(j)

\* ---------------------------------------------------------------- C7
\* C7: when the process of a job exits with code rc, run returns rc (it does not
\* raise) and the worker emits exactly one result event for the job, carrying
\* rc: COMPLETED when rc is 0, FAILED otherwise.
C7_ExitCodeToState ==
  \A j \in JobIdx :
    /\ outcome[j].kind = "none" => StatePos(j, {"COMPLETED", "FAILED"}) = {}
    /\ outcome[j].kind = "return" =>
         /\ Cardinality(StatePos(j, {"COMPLETED", "FAILED"})) = 1
         /\ \A i \in StatePos(j, {"COMPLETED", "FAILED"}) :
              /\ events[j][i].rc = outcome[j].exit
              /\ ~events[j][i].error
              /\ events[j][i].state = "COMPLETED" <=> outcome[j].exit = {0}
              /\ events[j][i].state = "FAILED" <=> outcome[j].exit # {0}

\* One job whose process exited nonzero and one whose process exited 0.
C7_Witness ==
  /\ \E j \in JobIdx : outcome[j].kind = "return" /\ outcome[j].exit # {0}
  /\ \E j \in JobIdx : outcome[j].kind = "return" /\ outcome[j].exit = {0}

\* ---------------------------------------------------------------- C8
\* The worker's result events of Job j that carry an error indicator.
ErrorPos(j) == {i \in Pos(j) : events[j][i].error}

\* C8: when the run of a job raises, the worker emits FAILED with an error
\* indicator for that job and for no other; every other job that is queued or
\* in flight is still dispatched and gets its own RUNNING and result events.
C8_RaiseIsContained ==
  /\ [](\A j \in JobIdx :
          /\ outcome[j].kind = "raise" =>
               /\ Cardinality(StatePos(j, {"COMPLETED", "FAILED"})) = 1
               /\ StatePos(j, {"FAILED"}) = ErrorPos(j)
               /\ ErrorPos(j) # {}
          /\ outcome[j].kind # "raise" => ErrorPos(j) = {})
  /\ \A j \in JobIdx : \A k \in JobIdx :
       (j # k /\ outcome[j].kind = "raise" /\ pc[k] \in {"scheduled", "running"})
         ~> (/\ pc[k] = "done"
             /\ StatePos(k, {"RUNNING"}) # {}
             /\ StatePos(k, {"COMPLETED", "FAILED"}) # {})

\* The run of one job has raised and its FAILED event is out while another job
\* is still queued or in flight.
C8_Witness ==
  \E j \in JobIdx : \E k \in JobIdx :
    /\ j # k
    /\ outcome[j].kind = "raise"
    /\ ErrorPos(j) # {}
    /\ pc[k] \in {"scheduled", "running"}

\* ---------------------------------------------------------------- C9
\* C9: the run callable of every job handed to submit is invoked exactly once:
\* never twice, and eventually once, whatever cancel calls are made.
C9_RunExactlyOnce ==
  /\ [](\A j \in JobIdx : runCount[j] <= 1)
  /\ \A j \in JobIdx : Submitted(j) ~> (runCount[j] = 1)

\* A job that was cancelled before its dispatch has been run once.
C9_Witness ==
  \E j \in JobIdx :
    /\ runCount[j] = 1
    /\ pc[j] = "done"
    /\ \E i \in StatePos(j, {"CANCELED"}) : \A r \in StatePos(j, {"RUNNING"}) : i < r

\* ---------------------------------------------------------------- C10
\* C10: any two submitted jobs have different ids, so a submission never
\* replaces the registry entry of an earlier job. Two jobs built by build_job
\* of one trainer instance share the trainer's _id.
C10_UniqueJobIds ==
  /\ \A j \in JobIdx : \A k \in JobIdx :
       (j # k /\ Submitted(j) /\ Submitted(k)) => jobs[j].id # jobs[k].id
  /\ \A j \in JobIdx : Submitted(j) => _jobs[jobs[j].id] = j

\* ---------------------------------------------------------------- EventBus claims
\* The handlers registered for the topic of emit call c when it was made,
\* in the order of their on() calls.
RegisteredAt(c) ==
  LET rs == SelectSeq(SubSeq(regs, 1, calls[c].nregs),
                      LAMBDA r : r.topic = calls[c].topic)
  IN [k \in 1..Len(rs) |-> rs[k].h]

\* The handlers invoked so far with the payload of emit call c, in order.
Deliveries(c) ==
  LET ds == SelectSeq(delivered, LAMBDA d : d.call = c)
  IN [k \in 1..Len(ds) |-> ds[k].h]

\* The payloads thread t has called emit with from its script, in order.
TopCalls(t) ==
  LET cs == SelectSeq(calls, LAMBDA c : c.thread = t /\ c.top)
  IN [k \in 1..Len(cs) |-> [topic |-> cs[k].topic, state |-> cs[k].state]]

\* C11: EventBus.emit isolates handlers: no emit call is left by an exception,
\* and when an emit call has returned, every handler that was registered for its
\* topic has been invoked with its payload, whether or not other handlers of
\* the topic raised.
C11_EmitIsolatesHandlers ==
  \A c \in DOMAIN calls :
    /\ calls[c].status # "raised"
    /\ calls[c].status = "returned" =>
         \A k \in DOMAIN RegisteredAt(c) :
           \E d \in DOMAIN delivered :
             delivered[d].call = c /\ delivered[d].h = RegisteredAt(c)[k]

\* An emit has returned whose first handler raised and whose second handler
\* was then invoked with the same payload.
C11_Witness ==
  \E c \in DOMAIN calls :
    /\ calls[c].status = "returned"
    /\ RegisteredAt(c) = <<"raise", "ok">>
    /\ Deliveries(c) = <<"raise", "ok">>

\* C12: a subscriber that raises on task_log does not affect the job that
\* produced the line: no exception ends the run of an emitting thread, and the
\* payloads it emits are those of its script, in the script's order, up to the
\* task_state event of the terminal state once all its emits have returned.
C12_RaisingSubscriberHarmless ==
  \A t \in Emitters :
    /\ ~aborted[t]
    /\ TopCalls(t) = SubSeq(JobScript, 1, Len(TopCalls(t)))
    /\ Len(TopCalls(t)) - emitted[t] = (IF stack[t] = <<>> THEN 0 ELSE 1)

\* A thread has emitted its whole script, COMPLETED included, although a
\* handler raised on its task_log payload.
C12_Witness ==
  \E t \in Emitters :
    /\ emitted[t] = Len(JobScript)
    /\ TopCalls(t) = JobScript
    /\ \E d \in DOMAIN delivered :
         /\ delivered[d].h = "raise"
         /\ calls[delivered[d].call].topic = "task_log"
         /\ calls[delivered[d].call].thread = t
         /\ calls[delivered[d].call].top

\* C13: emit(topic, payload) invokes, before it returns and on the thread of its
\* caller, the handlers that were registered for the topic when it was called:
\* once per registration, in the order of the on() calls, and no other handler.
C13_EmitInvokesRegistered ==
  \A c \in DOMAIN calls :
    /\ Deliveries(c) = SubSeq(RegisteredAt(c), 1, Len(Deliveries(c)))
    /\ calls[c].status = "returned" => Deliveries(c) = RegisteredAt(c)
    /\ \A d \in DOMAIN delivered :
         delivered[d].call = c => delivered[d].thread = calls[c].thread

\* An emit has returned that had two different handlers to invoke, while a
\* handler was registered for another topic only.
C13_Witness ==
  \E c \in DOMAIN calls :
    /\ calls[c].status = "returned"
    /\ Len(RegisteredAt(c)) = 2
    /\ RegisteredAt(c)[1] # RegisteredAt(c)[2]
    /\ Deliveries(c) = RegisteredAt(c)
    /\ \E r \in 1..calls[c].nregs :
         /\ regs[r].topic # calls[c].topic
         /\ \A k \in DOMAIN RegisteredAt(c) : RegisteredAt(c)[k] # regs[r].h

\* C14: within one topic every handler receives the payloads in the order of
\* the emit calls: a handler is never invoked with the payload of an earlier
\* emit call of a topic after it was invoked with that of a later one.
C14_DeliveryInEmitOrder ==
  \A i, j \in DOMAIN delivered :
    (/\ i < j
     /\ delivered[i].h = delivered[j].h
     /\ calls[delivered[i].call].topic = calls[delivered[j].call].topic)
    => delivered[i].call <= delivered[j].call

\* ---------------------------------------------------------------- trainer claims
\* C15: for every N >= 1, a simulation run called with total_steps = N does
\* not raise and, once it has returned, has returned 0 and has emitted progress
\* events the last of which has step = N.
C15_SimulationEndsAtN ==
  (run.mode = "dry" /\ run.total_steps >= 1) =>
     /\ run.pc # "raised"
     /\ run.pc = "returned" =>
          /\ run.rc = 0
          /\ progress # <<>>
          /\ progress[Len(progress)].step = run.total_steps

\* C16: every progress payload of a run carries the total_steps the run was
\* called with, whatever total the process prints in its step X/Y output.
C16_TotalStepsAuthoritative ==
  \A k \in DOMAIN progress : progress[k].total_steps = run.total_steps

\* A run of a real process has emitted two progress payloads, after a line
\* whose step X/Y carried another total than the run's.
C16_Witness ==
  /\ run.mode = "real"
  /\ Len(progress) >= 2
  /\ \E i \in DOMAIN lines : lines[i].total # None /\ lines[i].total # run.total_steps

\* C17: cancel() never raises; it changes nothing when no process has been
\* started; and once a call has found the process, no later call changes
\* anything, also after the process has exited.
C17_CancelIdempotent ==
  \A k \in DOMAIN rcancels :
    /\ ~rcancels[k].raised
    /\ ~rcancels[k].had => rcancels[k].after = rcancels[k].before
    /\ (\E j \in 1..(k - 1) : rcancels[j].had) => rcancels[k].after = rcancels[k].before

\* cancel() was called before the process was started, then while it ran, and
\* again after it had exited and run had returned.
C17_Witness ==
  /\ Len(rcancels) = 3
  /\ ~rcancels[1].had
  /\ rcancels[2].had /\ rcancels[2].before = "running" /\ rcancels[2].after = "stopping"
  /\ rcancels[3].had /\ rcancels[3].reaped /\ rcancels[3].before = "exited"

\* The value of field F most recently found on one of the first n lines, or d.
LastKnown(F(_), n, d) ==
  LET found == {i \in 1..n : F(lines[i]) # None}
  IN IF found = {} THEN d
     ELSE F(lines[CHOOSE i \in found : \A j \in found : j <= i])

LineEpoch(l) == l.epoch
LineIps(l) == l.ips
LineEta(l) == l.eta

\* C20: with a real process, every progress payload carries the epoch, the
\* throughput and the ETA most recently found on a line read so far (the epoch
\* is 1 and the others are None until one was found).
C20_FieldsKeepLastKnown ==
  run.mode = "real" =>
    \A k \in DOMAIN progress :
      /\ progress[k].epoch = LastKnown(LineEpoch, progress[k].line, 1)
      /\ progress[k].ips = LastKnown(LineIps, progress[k].line, None)
      /\ progress[k].eta_secs = LastKnown(LineEta, progress[k].line, None)

\* ---------------------------------------------------------------- manager claims
\* The configuration of the example: 100 items, 2 repeats, batches of 4.
ExampleConfig ==
  [dataset_size |-> 100, repeats |-> 2, batch_size |-> 4, grad_accum |-> 1, epochs |-> 3]

\* C18: for a configuration with dataset_size >= 0, total_steps(cfg) is
\* ceil(dataset_size * max(1, repeats) / max(1, batch_size * max(1, grad_accum)))
\* * max(1, epochs): the per-epoch factor is the least n with n * divisor >=
\* dividend; the total is >= 0, is 0 for an empty dataset, and is 150 for the
\* example.
C18_TotalStepsFormula ==
  submitted # NoSubmission =>
    LET c == submitted.cfg
        dividend == c.dataset_size * Max(1, c.repeats)
        divisor == Max(1, c.batch_size * Max(1, c.grad_accum))
        n == StepsPerEpoch(c)
    IN /\ divisor >= 1
       /\ n * divisor >= dividend
       /\ (n - 1) * divisor < dividend
       /\ submitted.total = n * Max(1, c.epochs)
       /\ submitted.total >= 0
       /\ c.dataset_size = 0 => submitted.total = 0
       /\ c = ExampleConfig => submitted.total = 150

\* total_steps was computed for a configuration whose quotient is not whole
\* (100 / 8), with repeats = 0 and epochs = 0 raised to 1.
C18_Witness ==
  /\ submitted.cfg = [dataset_size |-> 100, repeats |-> 0, batch_size |-> 4,
                      grad_accum |-> 2, epochs |-> 0]
  /\ submitted.total = 13

C21_ProgressIffStepExtracted ==
  run.mode = "real" =>
    \A i \in DOMAIN lines :
      /\ Cardinality({k \in DOMAIN progress : progress[k].line = i}) <= 1
      /\ (lines[i].step # None) <=> (\E k \in DOMAIN progress : progress[k].line = i)
\* ---------------------------------------------------------------- C24
\* C24: submit completes in every state of the pool: each of its steps can be
\* taken whatever the number of busy workers, and the job it leaves behind is
\* in the pool's work queue, has not been run and has no RUNNING or result
\* event: its state events are QUEUED (and CANCELED when cancel was called).
C24_SubmitNeverWaits ==
  \A j \in JobIdx :
    /\ pc[j] = "built" => ENABLED SubmitRegister(j)
    /\ pc[j] = "registered" => ENABLED SubmitSchedule(j)
    /\ pc[j] = "scheduled" =>
         /\ \E i \in DOMAIN workq : workq[i] = j
         /\ runCount[j] = 0
         /\ StatePos(j, {"QUEUED"}) # {}
         /\ StatePos(j, {"RUNNING", "COMPLETED", "FAILED"}) = {}
         /\ cancelCount[j] = 0 => LastState(j) = "QUEUED"

\* All workers are busy, submit has returned for a further job, and that job
\* waits in the queue as QUEUED.
C24_Witness ==
  /\ Cardinality(Running) = max_workers
  /\ \E j \in JobIdx :
       /\ pc[j] = "scheduled"
       /\ LastState(j) = "QUEUED"
       /\ runCount[j] = 0
\* ---------------------------------------------------------------- C25
\* C25: no task_log or task_progress event of a job is emitted after a terminal
\* task_state event (COMPLETED, FAILED or CANCELED) of that job. The code does
\* not keep this: cancel emits CANCELED while run is still executing, and run
\* goes on calling log_cb and progress_cb for what it reads or simulates.
C25_NoOutputAfterTerminal ==
  \A j \in JobIdx :
    \A i \in StatePos(j, TerminalStates) :
      \A k \in OutputPos(j) : k < i
\* ---------------------------------------------------------------- C26
\* C26: every job handed to submit is eventually dispatched and eventually gets
\* a COMPLETED or FAILED event from its worker, provided every run returns or
\* raises: whatever max_workers is, however many jobs are queued and whatever
\* cancel calls are made, no submitted job is starved or lost.
C26_EverySubmittedJobEnds ==
  \A j \in JobIdx :
    Submitted(j) ~> (/\ pc[j] = "done"
                     /\ StatePos(j, {"RUNNING"}) # {}
                     /\ \E i \in StatePos(j, {"COMPLETED", "FAILED"}) :
                          \E r \in StatePos(j, {"RUNNING"}) : r < i)

\* With one worker, a job that had to wait behind another one and for which
\* cancel was called has been dispatched and has its result event.
C26_Witness ==
  /\ max_workers = 1
  /\ \E j \in JobIdx : \E k \in JobIdx :
       /\ j < k
       /\ pc[j] = "done" /\ pc[k] = "done"
       /\ cancelCount[k] > 0
       /\ StatePos(k, {"COMPLETED", "FAILED"}) # {}
\* ---------------------------------------------------------------- C23
\* C23: after cancel is requested for the trainer's job while its run is
\* executing, the process is asked to stop and exits, the reading loop ends,
\* run returns and the worker is released: the job is done, and a job that was
\* queued behind it is dispatched. The code does not keep this when cancel
\* comes before run has reached Popen: cancel() finds self._proc unset and
\* returns, and the process started afterwards is never asked to stop.
C23_CancelMakesProgress ==
  \A j \in JobIdx : \A k \in JobIdx :
    (TrainerJob(j) /\ pc[j] = "running" /\ cancelCount[j] > 0 /\ pc[k] \in {"scheduled", "running"})
      ~> (pc[j] = "done" /\ proc.state = "exited" /\ pc[k] \in {"running", "done"})
\* ---------------------------------------------------------------- C22
\* C22: the run of a job built by build_job returns 0 exactly when the training
\* succeeded and a nonzero code exactly when it failed, so that the worker
\* emits COMPLETED for a successful training and FAILED for a failed one; this
\* for the job of MusubiTrainer.build_job, whose run is run_training. That run
\* returns a bool: True (== 1) for success and False (== 0) for failure.
C22_ResultMatchesTraining ==
  \A j \in JobIdx :
    (j \in 1..Len(jobs) /\ pc[j] = "done" /\ thread[TaskOf(j)].via = "queue") =>
      LET ok == thread[TaskOf(j)].result = "True" IN
        /\ ok <=> outcome[j].exit = {0}
        /\ ok => StatePos(j, {"COMPLETED"}) # {} /\ StatePos(j, {"FAILED"}) = {}
        /\ ~ok => StatePos(j, {"FAILED"}) # {} /\ StatePos(j, {"COMPLETED"}) = {}

\* ---------------------------------------------------------------- C27
\* The task_state callbacks of task t, in order.
StateEventsOf(t) == SelectSeq(state_events, LAMBDA e : e.task_id = t)

\* C27: once cancel_task has set a running task to CANCELLED, no later step
\* changes the task's state, and the last task_state callback for the task
\* reports CANCELLED.
C27_CancelledIsTerminal ==
  \A i \in DOMAIN cancelled :
    cancelled[i].result =>
      LET t == cancelled[i].task_id IN
        /\ task[t].state = "cancelled"
        /\ StateEventsOf(t)[Len(StateEventsOf(t))].state = "cancelled"

\* ---------------------------------------------------------------- C28
\* C28: when start_task returns False, the task's state is what it was before
\* the call, and no task is in state RUNNING without a training thread having
\* been started for it.
C28_FailedStartChangesNothing ==
  /\ \A i \in DOMAIN started : ~started[i].result => started[i].after = started[i].before
  /\ \A t \in tasks : task[t].state = "running" => thread[t].pc # "none"

\* ---------------------------------------------------------------- C29
\* C29: delete_task never removes a task whose training thread is still
\* executing, in any phase of the thread, and after a successful delete_task
\* the task's file is never written again.
C29_DeleteOnlyIdleTasks ==
  \A d \in deleted :
    /\ d.thread \in {"none", "done"}
    /\ d.task_id \notin tasks
    /\ ~files[d.task_id]

\* ---------------------------------------------------------------- C30
\* C30: with two tasks started and running under one TrainingManager,
\* cancel_task(A) terminates only the process launched for A, never the
\* process of another task.
C30_CancelKillsOwnProcess ==
  /\ canceling.killed \in {NoTask, canceling.task_id}
  /\ \A i \in DOMAIN cancelled : cancelled[i].killed \in {NoTask, cancelled[i].task_id}

====
